---- MODULE Spec2Model ----
(***************************************************************************)
(* Model of tools/generate-seed-db.py: the Homarr seed database generator. *)
(*                                                                         *)
(* The state is the file system the script acts on (the directories, the   *)
(* database file, the key file), the interpreter's position in main(), the *)
(* sqlite3 connection with its open transaction, the exception in flight   *)
(* and the process's exit status.  One action per statement of main();     *)
(* NewRun starts the script again on the same paths.                       *)
(*                                                                         *)
(* Text is a sequence of one-character strings, so that the composite key  *)
(* and the key file can be split at a separator.                           *)
(***************************************************************************)
EXTENDS Integers, Sequences, FiniteSets

\* How many times the script is run against the same output paths.
MaxRuns == 2

----------------------------------------------------------------------------
(* Module constants, lines 31-33 *)

BOOTSTRAP_API_KEY_ID ==
    <<"h","a","l","o","s","-","b","o","o","t","s","t","r","a","p">>

BOOTSTRAP_API_KEY_TOKEN ==
    <<"h","a","l","o","s","-","b","o","o","t","s","t","r","a","p","-",
      "r","o","t","a","t","e","-","m","e","-","o","n","-","f","i","r","s","t",
      "-","b","o","o","t","-","a","b","c","1","2","3">>

SERVICE_USER_ID ==
    <<"h","a","l","o","s","-","s","e","r","v","i","c","e">>

\* SQL NULL in a column the INSERT does not name and that has no DEFAULT.
Null == "NULL"

----------------------------------------------------------------------------
(* bcrypt, as far as the script uses it.  The key schedule reads the       *)
(* NUL-terminated password cyclically up to the 72-byte limit; EksBlowfish *)
(* itself is kept symbolic: the digest is written as the salt and the key  *)
(* material it was computed from.                                          *)

BcryptMaxKey == 72

NUL == "\\0"

\* The values bcrypt.gensalt can return: "$2b$10$" and 22 random characters,
\* the random part standing as one symbol.
RandomParts == {"saltA", "saltB", "saltC"}

gensalt(r) == <<"$","2","b","$","1","0","$", r>>

KeyBytes(password) ==
    IF Len(password) + 1 > BcryptMaxKey
    THEN SubSeq(password, 1, BcryptMaxKey)
    ELSE password \o <<NUL>>

KeyMaterial(password) ==
    LET k == KeyBytes(password)
    IN  [i \in 1..BcryptMaxKey |-> k[((i - 1) % Len(k)) + 1]]

hashpw(password, salt) ==
    salt \o <<"eksblowfish">> \o KeyMaterial(password)

----------------------------------------------------------------------------
(* json.dumps of the two settings documents: a dict {"json": {flag: bool}} *)
(* becomes a sequence of JSON tokens, keys in insertion order.             *)

Quote(s) == "\"" \o s \o "\""

JsonBool(b) == IF b THEN "true" ELSE "false"

RECURSIVE JsonItems(_)
JsonItems(items) ==
    IF items = <<>> THEN <<>>
    ELSE <<Quote(items[1][1]), ":", JsonBool(items[1][2])>>
         \o (IF Len(items) > 1 THEN <<",">> ELSE <<>>)
         \o JsonItems(Tail(items))

json_dumps(doc) ==
    <<"{", Quote("json"), ":", "{">> \o JsonItems(doc.json) \o <<"}", "}">>

----------------------------------------------------------------------------
(* The database file: absent, a file that is no SQLite database, or a      *)
(* database: the tables that exist and the committed rows of each.         *)

TableOrder == <<"onboarding", "user", "apiKey", "serverSetting">>

TableNames == {TableOrder[i] : i \in 1..Len(TableOrder)}

NoRows == [t \in TableNames |-> {}]

AbsentFile == [kind |-> "absent", tables |-> {}, rows |-> NoRows]

ForeignFile == [kind |-> "foreign", tables |-> {}, rows |-> NoRows]

\* The zero-byte file sqlite3.connect creates: a database with no table.
EmptyDb == [kind |-> "sqlite", tables |-> {}, rows |-> NoRows]

\* The primary key column of each table (lines 43, 52, 73, 83).
PrimaryKey(t, row) == IF t = "serverSetting" THEN row.settingKey ELSE row.id

\* create_tables: the first n CREATE TABLE IF NOT EXISTS statements have run.
\* Outside a transaction each takes effect at once; an existing table is kept.
CreateTables(db, n) ==
    [db EXCEPT !.tables = @ \cup {TableOrder[i] : i \in 1..n}]

\* Whether INSERT of row into t can succeed, given the rows the connection
\* sees (committed and pending): the table exists and the key is new.
CanInsert(db, pend, t, row) ==
    /\ db.kind = "sqlite"
    /\ t \in db.tables
    /\ \A r \in db.rows[t] \cup pend[t] : PrimaryKey(t, r) # PrimaryKey(t, row)

AddRow(rows, t, row) == [rows EXCEPT ![t] = @ \cup {row}]

\* conn.commit(): the pending rows become rows of the file.
Commit(db, pend) ==
    [db EXCEPT !.rows = [t \in TableNames |-> db.rows[t] \cup pend[t]]]

----------------------------------------------------------------------------
(* The rows the script inserts *)

\* Mutant: the onboarding row is left at a step before the last.
OnboardingRow_NotFinished ==
    [id |-> "init", step |-> "settings", previousStep |-> "settings"]

OnboardingRow ==
    [id |-> "init", step |-> "finish", previousStep |-> "settings"]

ServiceUserRow ==
    [id |-> SERVICE_USER_ID, name |-> "HaLOS Service Account",
     provider |-> "credentials", colorScheme |-> "dark",
     email |-> Null, password |-> Null, salt |-> Null]

\* Mutant: the token is stored as it is.
ApiKeyRow_Plaintext(salt) ==
    [id |-> BOOTSTRAP_API_KEY_ID,
     apiKey |-> BOOTSTRAP_API_KEY_TOKEN,
     salt |-> salt,
     userId |-> SERVICE_USER_ID]

ApiKeyRow(salt) ==
    [id |-> BOOTSTRAP_API_KEY_ID,
     apiKey |-> hashpw(BOOTSTRAP_API_KEY_TOKEN, salt),
     salt |-> salt,
     userId |-> SERVICE_USER_ID]

\* Mutant: the two parts of the composite key are swapped.
ApiKeyString_TokenFirst ==
    BOOTSTRAP_API_KEY_TOKEN \o <<".">> \o BOOTSTRAP_API_KEY_ID

\* The value insert_bootstrap_api_key returns: "{id}.{token}".
ApiKeyString == BOOTSTRAP_API_KEY_ID \o <<".">> \o BOOTSTRAP_API_KEY_TOKEN

\* Mutant: one analytics flag is left on.
analytics_UserDataOn ==
    [json |-> << <<"enableGeneral", FALSE>>, <<"enableWidgetData", FALSE>>,
                 <<"enableIntegrationData", FALSE>>, <<"enableUserData", TRUE>> >>]

analytics ==
    [json |-> << <<"enableGeneral", FALSE>>, <<"enableWidgetData", FALSE>>,
                 <<"enableIntegrationData", FALSE>>, <<"enableUserData", FALSE>> >>]

crawling ==
    [json |-> << <<"noIndex", TRUE>>, <<"noFollow", TRUE>>,
                 <<"noTranslate", TRUE>>, <<"noSiteLinksSearchBox", TRUE>> >>]

AnalyticsRow == [settingKey |-> "analytics", value |-> json_dumps(analytics)]

CrawlingRow ==
    [settingKey |-> "crawlingAndIndexing", value |-> json_dumps(crawling)]

\* What args.output_key.write_text is given.
KeyFileText(api_key) == api_key \o <<"\n">>

----------------------------------------------------------------------------
(* Control flow of the script *)

\* Mutant: the key file's directory is made only when the key file is due.
MainSteps_KeyDirLate ==
    <<"mkdir_db", "unlink", "connect",
      "create_tables", "insert_onboarding_complete", "insert_service_user",
      "insert_bootstrap_api_key", "insert_server_settings",
      "close", "mkdir_key", "write_key", "return">>

\* Mutant: the credential is inserted before the user that owns it.
MainSteps_ApiKeyBeforeUser ==
    <<"mkdir_db", "mkdir_key", "unlink", "connect",
      "create_tables", "insert_onboarding_complete", "insert_bootstrap_api_key",
      "insert_service_user", "insert_server_settings",
      "close", "write_key", "return">>

\* The statements of main() in program order (lines 187-217).
MainSteps ==
    <<"mkdir_db", "mkdir_key", "unlink", "connect",
      "create_tables", "insert_onboarding_complete", "insert_service_user",
      "insert_bootstrap_api_key", "insert_server_settings",
      "close", "write_key", "return">>

StepIndex(step) == CHOOSE i \in 1..Len(MainSteps) : MainSteps[i] = step

StepAfter(step) == MainSteps[StepIndex(step) + 1]

\* The statements inside try: (lines 199-203).
TryBody ==
    {"create_tables", "insert_onboarding_complete", "insert_service_user",
     "insert_bootstrap_api_key", "insert_server_settings"}

\* Mutant: no finally clause; an exception leaves main() at once.
OnRaise_NoFinally(step) == "exited"

\* Where control goes when a statement raises: to the finally clause from
\* inside the try, out of the process otherwise.
OnRaise(step) == IF step \in TryBody THEN "close" ELSE "exited"

\* Mutant: the exception is swallowed (except: pass in place of finally).
AfterFinally_Swallowed(e) == StepAfter("close")

\* After the finally clause: the exception in flight, if any, is re-raised.
AfterFinally(e) == IF e = "none" THEN StepAfter("close") ELSE "exited"

\* Mutant: the import failure is not checked before main() runs.
AfterImport_Deferred(available) == MainSteps[1]

\* The module-level import (lines 22-26): without bcrypt, sys.exit(1).
AfterImport(available) == IF available THEN MainSteps[1] ELSE "exited"

\* Mutant: the existing file is kept.
RemoveExisting_Kept(f) == f

\* Lines 191-192: an existing file at the database path is unlinked.
RemoveExisting(f) == IF f.kind # "absent" THEN AbsentFile ELSE f

----------------------------------------------------------------------------
(* State *)

Dirs == {"out", "keys"}

NoKeyFile == [exists |-> FALSE, text |-> <<>>]

StaleKeyFile == [exists |-> TRUE, text |-> <<"o","l","d","\n">>]

Unassigned == <<>>

VARIABLES
    args,             \* parent directories of --output-db and --output-key
    bcryptAvailable,  \* whether "import bcrypt" succeeds in this process
    run,              \* the number of this run of the script
    pc,               \* "import", a statement of main(), or "exited"
    dirs,             \* the directories that exist
    dbFile,           \* the file at args.output_db
    keyFile,          \* the file at args.output_key
    conn,             \* "none", "open" or "closed"
    pending,          \* rows inserted on conn and not yet committed
    api_key,          \* main's local api_key
    exc,              \* the statement whose exception is in flight, or "none"
    exitCode,         \* "running", "zero" or "nonzero"
    keyWritten,       \* whether this run has written to the key file
    fsAtStart         \* dirs, dbFile and keyFile as this run found them

vars == <<args, bcryptAvailable, run, pc, dirs, dbFile, keyFile, conn, pending,
          api_key, exc, exitCode, keyWritten, fsAtStart>>

fs == <<dirs, dbFile, keyFile>>

env == <<args, bcryptAvailable, run, fsAtStart>>

Init ==
    /\ args \in [db_parent : Dirs, key_parent : Dirs]
    /\ bcryptAvailable \in BOOLEAN
    /\ run = 1
    /\ pc = "import"
    /\ dirs \in SUBSET Dirs
    /\ dbFile \in {AbsentFile, ForeignFile}
    /\ dbFile.kind # "absent" => args.db_parent \in dirs
    /\ keyFile \in {NoKeyFile, StaleKeyFile}
    /\ keyFile.exists => args.key_parent \in dirs
    /\ conn = "none"
    /\ pending = NoRows
    /\ api_key = Unassigned
    /\ exc = "none"
    /\ exitCode = "running"
    /\ keyWritten = FALSE
    /\ fsAtStart = fs

\* A statement at step raises: control leaves the statement as OnRaise says,
\* and an exception that leaves main() ends the process with a traceback.
Raise(step) ==
    /\ exc' = step
    /\ pc' = OnRaise(step)
    /\ exitCode' = IF OnRaise(step) = "exited" THEN "nonzero" ELSE exitCode

Proceed(step) ==
    /\ pc' = StepAfter(step)
    /\ UNCHANGED <<exc, exitCode>>

----------------------------------------------------------------------------
(* The statements *)

\* try: import bcrypt / except ImportError: print(...); sys.exit(1)
Import ==
    /\ pc = "import"
    /\ pc' = AfterImport(bcryptAvailable)
    /\ exc' = IF bcryptAvailable THEN exc ELSE "import"
    /\ exitCode' = IF AfterImport(bcryptAvailable) = "exited"
                   THEN "nonzero" ELSE exitCode
    /\ UNCHANGED <<env, fs, conn, pending, api_key,
                   keyWritten>>

\* parent.mkdir(parents=True, exist_ok=True): an existing directory is left
\* alone; creating a missing one can fail.
Mkdir(step, parent) ==
    /\ pc = step
    /\ \E ok \in BOOLEAN :
         IF ok \/ parent \in dirs
         THEN dirs' = dirs \cup {parent} /\ Proceed(step)
         ELSE UNCHANGED dirs /\ Raise(step)
    /\ UNCHANGED <<env, dbFile, keyFile, conn, pending,
                   api_key, keyWritten>>

MkdirDb == Mkdir("mkdir_db", args.db_parent)

MkdirKey == Mkdir("mkdir_key", args.key_parent)

\* if args.output_db.exists(): args.output_db.unlink()
Unlink ==
    /\ pc = "unlink"
    /\ \E ok \in BOOLEAN :
         IF ok \/ dbFile.kind = "absent"
         THEN dbFile' = RemoveExisting(dbFile) /\ Proceed("unlink")
         ELSE UNCHANGED dbFile /\ Raise("unlink")
    /\ UNCHANGED <<env, dirs, keyFile, conn, pending,
                   api_key, keyWritten>>

\* conn = sqlite3.connect(args.output_db): creates the file when there is
\* none; cannot open a file in a directory that does not exist.
Connect ==
    /\ pc = "connect"
    /\ \E ok \in BOOLEAN :
         IF ok /\ args.db_parent \in dirs
         THEN /\ conn' = "open"
              /\ dbFile' = IF dbFile.kind = "absent" THEN EmptyDb ELSE dbFile
              /\ Proceed("connect")
         ELSE UNCHANGED <<conn, dbFile>> /\ Raise("connect")
    /\ UNCHANGED <<env, dirs, keyFile, pending,
                   api_key, keyWritten>>

\* create_tables(conn): n of the four statements run before one fails
\* (n = 4: none fails).  A file that is no database fails the first.
CreateTablesStep ==
    /\ pc = "create_tables"
    /\ \E n \in 0..Len(TableOrder) :
         LET m == IF dbFile.kind = "sqlite" /\ conn = "open" THEN n ELSE 0
         IN  /\ dbFile' = IF m > 0 THEN CreateTables(dbFile, m) ELSE dbFile
             /\ IF m = Len(TableOrder)
                THEN Proceed("create_tables")
                ELSE Raise("create_tables")
    /\ UNCHANGED <<env, dirs, keyFile, conn, pending,
                   api_key, keyWritten>>

\* The pending rows after the first k of the INSERTs have run.
RECURSIVE Inserted(_, _, _)
Inserted(pend, inserts, k) ==
    IF k = 0 THEN pend
    ELSE AddRow(Inserted(pend, inserts, k - 1), inserts[k][1], inserts[k][2])

\* Whether the first k INSERTs all succeed on the connection.
Executes(inserts, k) ==
    /\ conn = "open"
    /\ \A i \in 1..k :
         CanInsert(dbFile, Inserted(pending, inserts, i - 1),
                   inserts[i][1], inserts[i][2])

\* A function that runs the INSERTs and then conn.commit(): k of the INSERTs
\* run before one fails (k = Len: none), then the commit succeeds or fails.
\* Only a successful commit changes the file.
Succeeds(inserts, k, commits) ==
    k = Len(inserts) /\ Executes(inserts, k) /\ commits

InsertStep(step, inserts, k, commits) ==
    /\ pc = step
    /\ IF Succeeds(inserts, k, commits)
       THEN /\ dbFile' = Commit(dbFile, Inserted(pending, inserts, k))
            /\ pending' = NoRows
            /\ Proceed(step)
       ELSE /\ pending' = IF Executes(inserts, k)
                          THEN Inserted(pending, inserts, k) ELSE pending
            /\ UNCHANGED dbFile
            /\ Raise(step)
    /\ UNCHANGED <<env, dirs, keyFile, conn, keyWritten>>

InsertOnboardingComplete ==
    \E k \in 0..1, commits \in BOOLEAN :
        /\ InsertStep("insert_onboarding_complete",
                      << <<"onboarding", OnboardingRow>> >>, k, commits)
        /\ UNCHANGED api_key

InsertServiceUser ==
    \E k \in 0..1, commits \in BOOLEAN :
        /\ InsertStep("insert_service_user",
                      << <<"user", ServiceUserRow>> >>, k, commits)
        /\ UNCHANGED api_key

\* api_key = insert_bootstrap_api_key(conn): the salt is drawn, the token is
\* hashed, the row is inserted; api_key is assigned only when it returns.
InsertBootstrapApiKey ==
    \E r \in RandomParts, k \in 0..1, commits \in BOOLEAN :
        LET salt == gensalt(r)
            inserts == << <<"apiKey", ApiKeyRow(salt)>> >>
            kk == IF bcryptAvailable THEN k ELSE 0
        IN  /\ InsertStep("insert_bootstrap_api_key", inserts, kk, commits)
            /\ api_key' = IF Succeeds(inserts, kk, commits)
                          THEN ApiKeyString ELSE api_key

InsertServerSettings ==
    \E k \in 0..2, commits \in BOOLEAN :
        /\ InsertStep("insert_server_settings",
                      << <<"serverSetting", AnalyticsRow>>,
                         <<"serverSetting", CrawlingRow>> >>, k, commits)
        /\ UNCHANGED api_key

\* finally: conn.close().  Closing rolls back what was not committed.
Close ==
    /\ pc = "close"
    /\ conn' = "closed"
    /\ pending' = NoRows
    /\ pc' = AfterFinally(exc)
    /\ exitCode' = IF AfterFinally(exc) = "exited" THEN "nonzero" ELSE exitCode
    /\ UNCHANGED <<env, fs, api_key, exc, keyWritten>>

\* args.output_key.write_text(api_key + "\n"): the file is opened for writing
\* (and truncated), then written.
WriteKey ==
    /\ pc = "write_key"
    /\ \E outcome \in {"open_fails", "write_fails", "ok"} :
         LET o == IF api_key = Unassigned \/ args.key_parent \notin dirs
                  THEN "open_fails" ELSE outcome
         IN  /\ keyFile' = CASE o = "ok" ->
                                  [exists |-> TRUE, text |-> KeyFileText(api_key)]
                             [] o = "write_fails" ->
                                  [exists |-> TRUE, text |-> <<>>]
                             [] OTHER -> keyFile
             /\ keyWritten' = (o # "open_fails")
             /\ IF o = "ok" THEN Proceed("write_key") ELSE Raise("write_key")
    /\ UNCHANGED <<env, dirs, dbFile, conn, pending,
                   api_key>>

\* return 0, then sys.exit(main())
Return ==
    /\ pc = "return"
    /\ pc' = "exited"
    /\ exitCode' = "zero"
    /\ UNCHANGED <<env, fs, conn, pending, api_key,
                   exc, keyWritten>>

\* The script is run again with the same arguments; the files stay as the
\* last run left them.
NewRun ==
    /\ pc = "exited"
    /\ run < MaxRuns
    /\ run' = run + 1
    /\ bcryptAvailable' \in BOOLEAN
    /\ pc' = "import"
    /\ conn' = "none"
    /\ pending' = NoRows
    /\ api_key' = Unassigned
    /\ exc' = "none"
    /\ exitCode' = "running"
    /\ keyWritten' = FALSE
    /\ fsAtStart' = fs
    /\ UNCHANGED <<args, fs>>

Next ==
    \/ Import
    \/ MkdirDb
    \/ MkdirKey
    \/ Unlink
    \/ Connect
    \/ CreateTablesStep
    \/ InsertOnboardingComplete
    \/ InsertServiceUser
    \/ InsertBootstrapApiKey
    \/ InsertServerSettings
    \/ Close
    \/ WriteKey
    \/ Return
    \/ NewRun

Spec == Init /\ [][Next]_vars

----------------------------------------------------------------------------
(* Properties *)

Succeeded == pc = "exited" /\ exitCode = "zero"

Rows(t) == dbFile.rows[t]

\* The statements that open, create or write the database.
DatabaseSteps ==
    {"connect", "create_tables", "insert_onboarding_complete",
     "insert_service_user", "insert_bootstrap_api_key", "insert_server_settings"}

\* Every table exists and holds the committed rows of a complete seed.
FullySeeded ==
    /\ dbFile.kind = "sqlite"
    /\ dbFile.tables = {"onboarding", "user", "apiKey", "serverSetting"}
    /\ Cardinality(Rows("onboarding")) = 1
    /\ Cardinality(Rows("user")) = 1
    /\ Cardinality(Rows("apiKey")) = 1
    /\ Cardinality(Rows("serverSetting")) = 2
    /\ pending = NoRows

\* The values of the data model in the onboarding, user and apiKey tables.
SeedValues ==
    /\ \A r \in Rows("onboarding") : r.id = "init" /\ r.step = "finish"
    /\ \A r \in Rows("user") :
         /\ r.id = <<"h","a","l","o","s","-","s","e","r","v","i","c","e">>
         /\ r.name = "HaLOS Service Account"
         /\ r.password = "NULL" /\ r.email = "NULL"
    /\ \A r \in Rows("apiKey") :
         /\ r.id = <<"h","a","l","o","s","-","b","o","o","t","s","t","r","a","p">>
         /\ \E u \in Rows("user") : u.id = r.userId

\* C1 as stated: after a run in which every step succeeds, each of the four
\* tables (onboarding, user, apiKey, serverSetting) holds exactly one row,
\* with the values of the data model.
C1_OneRowInEachOfFourTables ==
    Succeeded =>
        /\ dbFile.kind = "sqlite"
        /\ \A t \in {"onboarding", "user", "apiKey", "serverSetting"} :
             Cardinality(Rows(t)) = 1
        /\ SeedValues

\* C1 amended: after a run in which every step succeeds, the onboarding, user
\* and apiKey tables hold exactly one row each and the serverSetting table
\* holds exactly two, with the values of the data model: onboarding row 'init'
\* at step 'finish', the service user, the credential with the fixed id linked
\* to the service user.
C1_SeededRows ==
    Succeeded => FullySeeded /\ SeedValues

C1_Witness ==
    /\ Succeeded
    /\ fsAtStart[2].kind = "absent"
    /\ Cardinality(Rows("onboarding")) = 1
    /\ Cardinality(Rows("serverSetting")) = 2

\* C2: a run in which connecting, creating the tables or a seed insert fails
\* exits non-zero and does not write the key file; the key-file write is
\* reached only with no exception in flight and all five database steps
\* committed.
C2_NoKeyFileAfterDatabaseFailure ==
    /\ exc \in DatabaseSteps =>
         /\ ~keyWritten
         /\ keyFile = fsAtStart[3]
         /\ pc \in {"close", "exited"}
         /\ pc = "exited" => exitCode = "nonzero"
    /\ pc = "write_key" => exc = "none" /\ FullySeeded
    /\ keyWritten => FullySeeded

C2_Witness ==
    /\ pc = "exited"
    /\ exc = "insert_server_settings"
    /\ exitCode = "nonzero"
    /\ api_key # Unassigned
    /\ ~keyWritten

\* The index of the first c in text, 0 when there is none.
FirstIndex(text, c) ==
    IF \E i \in 1..Len(text) : text[i] = c
    THEN CHOOSE i \in 1..Len(text) :
             text[i] = c /\ \A j \in 1..(i - 1) : text[j] # c
    ELSE 0

\* C3: after a successful run the key file is '<credential-id>.<token>' and
\* one newline; the part before the first '.' is the id of the only apiKey
\* row, and the token is the fixed token, the one hashed into that row.
C3_KeyFileMatchesCredentialRow ==
    Succeeded =>
        LET text == keyFile.text
            dot == FirstIndex(text, ".")
            prefix == SubSeq(text, 1, dot - 1)
            token == SubSeq(text, dot + 1, Len(text) - 1)
        IN  /\ keyFile.exists
            /\ dot > 0
            /\ FirstIndex(text, "\n") = Len(text)
            /\ Cardinality(Rows("apiKey")) = 1
            /\ \A r \in Rows("apiKey") :
                 r.id = prefix /\ r.apiKey = hashpw(token, r.salt)
            /\ token = BOOTSTRAP_API_KEY_TOKEN

C3_Witness ==
    /\ Succeeded
    /\ keyWritten
    /\ fsAtStart[3].exists
    /\ keyFile.text # fsAtStart[3].text

\* The database a first run on empty paths leaves when every step succeeds
\* and gensalt returns salt.
FreshDb(salt) ==
    Commit(CreateTables(EmptyDb, Len(TableOrder)),
           [onboarding |-> {OnboardingRow}, user |-> {ServiceUserRow},
            apiKey |-> {ApiKeyRow(salt)},
            serverSetting |-> {AnalyticsRow, CrawlingRow}])

FreshKeyFile == [exists |-> TRUE, text |-> KeyFileText(ApiKeyString)]

\* A database with the random columns of the apiKey table blanked.
ModuloSalt(db) ==
    [db EXCEPT !.rows["apiKey"] =
        {[r EXCEPT !.apiKey = <<>>, !.salt = <<>>] : r \in @}]

\* C4: whatever file a run finds at the database path, left by an earlier
\* complete or failed run or by anything else, is gone when the connection is
\* opened; after a successful run the database equals that of a fresh run up
\* to salt and hash, the key file equals that of a fresh run, and no table
\* holds more rows than after a fresh run.
C4_RerunEqualsFreshRun ==
    /\ pc = "connect" => dbFile.kind = "absent"
    /\ Succeeded =>
         /\ ModuloSalt(dbFile) = ModuloSalt(FreshDb(gensalt("saltA")))
         /\ \E r \in RandomParts : dbFile = FreshDb(gensalt(r))
         /\ keyFile = FreshKeyFile
         /\ \A t \in TableNames :
              Cardinality(Rows(t)) =
                  Cardinality(FreshDb(gensalt("saltA")).rows[t])

\* A second run succeeds over the database an earlier, failed run left
\* partially seeded.
C4_Witness ==
    /\ Succeeded
    /\ run > 1
    /\ fsAtStart[2].kind = "sqlite"
    /\ fsAtStart[2].rows["apiKey"] # {}
    /\ fsAtStart[2].rows["serverSetting"] = {}

\* C5: in a process where bcrypt cannot be imported, the directories, the
\* database file and the key file stay as the process found them, and the
\* process exits non-zero.
C5_NoFileTouchedWithoutBcrypt ==
    ~bcryptAvailable =>
        /\ fs = fsAtStart
        /\ pc \in {"import", "exited"}
        /\ pc = "exited" => exitCode = "nonzero"
        /\ conn = "none"

C5_Witness ==
    /\ ~bcryptAvailable
    /\ pc = "exited"
    /\ exitCode = "nonzero"
    /\ dbFile.kind # "absent"
    /\ args.key_parent \notin dirs

\* C6: no process exits with its connection open, on the success path or
\* after a failure in table creation or a seed insert, and the key file is
\* written only once the connection is closed.
C6_ConnectionClosedBeforeExit ==
    /\ pc = "exited" => conn # "open"
    /\ pc \in {"write_key", "return"} => conn = "closed"
    /\ keyWritten => conn = "closed"

C6_Witness ==
    /\ pc = "exited"
    /\ exc = "create_tables"
    /\ conn = "closed"
    /\ dbFile.tables # {}

\* Homarr's check of a presented token against a credential row: hash the
\* token with the row's salt and compare with the stored hash.
Verifies(candidate, row) == hashpw(candidate, row.salt) = row.apiKey

\* Strings presented for verification: the token, and strings near it.
Candidates ==
    {BOOTSTRAP_API_KEY_TOKEN,
     <<>>,
     BOOTSTRAP_API_KEY_ID,
     ApiKeyString,
     SubSeq(BOOTSTRAP_API_KEY_TOKEN, 1, Len(BOOTSTRAP_API_KEY_TOKEN) - 1),
     BOOTSTRAP_API_KEY_TOKEN \o <<"x">>,
     BOOTSTRAP_API_KEY_TOKEN \o BOOTSTRAP_API_KEY_TOKEN,
     BOOTSTRAP_API_KEY_TOKEN \o <<"0">> \o BOOTSTRAP_API_KEY_TOKEN,
     <<"H">> \o Tail(BOOTSTRAP_API_KEY_TOKEN)}

RECURSIVE ParseItems(_)
ParseItems(toks) ==
    IF Len(toks) = 5 /\ toks[2] = ":" /\ toks[4] = "}" /\ toks[5] = "}"
    THEN {<<toks[1], toks[3]>>}
    ELSE IF Len(toks) > 5 /\ toks[2] = ":" /\ toks[4] = ","
    THEN {<<toks[1], toks[3]>>} \cup ParseItems(SubSeq(toks, 5, Len(toks)))
    ELSE {<<"malformed", "malformed">>}

json_loads(value) ==
    IF Len(value) > 4 /\ SubSeq(value, 1, 4) = <<"{", "\"json\"", ":", "{">>
    THEN ParseItems(SubSeq(value, 5, Len(value)))
    ELSE {<<"malformed", "malformed">>}

\* C8: after a successful run serverSetting holds exactly two rows with
\* distinct keys, 'analytics' with every flag false and 'crawlingAndIndexing'
\* with every flag true.
C8_ServerSettings ==
    Succeeded =>
        /\ Cardinality(Rows("serverSetting")) = 2
        /\ {r.settingKey : r \in Rows("serverSetting")} =
               {"analytics", "crawlingAndIndexing"}
        /\ \A r \in Rows("serverSetting") :
             \A f \in json_loads(r.value) :
                 f[2] = IF r.settingKey = "analytics" THEN "false" ELSE "true"

C8_Witness ==
    /\ Succeeded
    /\ \E r \in Rows("serverSetting") :
         /\ r.settingKey = "crawlingAndIndexing"
         /\ <<"\"noIndex\"", "true">> \in json_loads(r.value)
    /\ \E r \in Rows("serverSetting") :
         /\ r.settingKey = "analytics"
         /\ Cardinality(json_loads(r.value)) = 4

\* C9: a missing parent directory of either output path is created, and both
\* parents exist whenever the stale database is about to be deleted, the
\* database is about to be opened or is open, and the key file is about to be
\* written or has been written.
C9_ParentsExistBeforeUse ==
    /\ pc \in {"unlink", "connect", "write_key"} =>
         {args.db_parent, args.key_parent} \subseteq dirs
    /\ conn # "none" => {args.db_parent, args.key_parent} \subseteq dirs
    /\ keyWritten => {args.db_parent, args.key_parent} \subseteq dirs

C9_Witness ==
    /\ Succeeded
    /\ fsAtStart[1] = {}
    /\ args.db_parent # args.key_parent
    /\ dbFile.kind = "sqlite"
    /\ keyFile.exists

\* C10: in every state of the database file, partially seeded ones included,
\* a bootstrap credential row comes with the service user row its userId
\* names and with the onboarding row.
C10_ReferentialIntegrity ==
    \A k \in Rows("apiKey") :
        k.id = BOOTSTRAP_API_KEY_ID =>
            /\ \E u \in Rows("user") :
                 u.id = k.userId /\ u.id = SERVICE_USER_ID
            /\ \E o \in Rows("onboarding") : o.id = "init"

\* A later process finds the database an earlier one left partially seeded.
C10_Witness ==
    /\ run > 1
    /\ pc = "import"
    /\ Rows("apiKey") # {}
    /\ Rows("serverSetting") = {}

====
